---------------------------- MODULE Spec2Model ----------------------------
(***************************************************************************)
(* A model of Editor_window/GraphicsCore.h: the Sphere mesh (vertex buffer *)
(* and value-copied triangle list), the Bresenham line loop of             *)
(* RenderingEngine::DrawLine, and the WM_CREATE / WM_TIMER / WM_PAINT      *)
(* handlers of RenderingEngine::HandleMessage with their worker threads.   *)
(*                                                                         *)
(* Floating point values are symbolic.  A vec3d is the record              *)
(*   [lat, lon, rot]                                                       *)
(* naming the (lat, lon) pair generateVertices computed it from and the    *)
(* sequence rot of non-identity rotate() calls applied to it since, each a *)
(* triple <<angleX, angleY, angleZ>>.  Angles are counted in units of the  *)
(* 0.01f step the timer handler adds.                                      *)
(***************************************************************************)
EXTENDS Integers, Sequences, FiniteSets

VARIABLES
    sphere,     \* a Sphere object: its fields, plus the indices its last generateIndices read
    lastOp,     \* the last public operation that returned on sphere
    line,       \* the locals of one DrawLine call and its position in the loop
    pixels,     \* the SetPixel calls made so far, in order
    pc,         \* position of the message-loop thread
    angleX, angleY, angleZ,   \* RenderingEngine rotation angles, in 0.01f steps
    degree,     \* RenderingEngine::degree
    moveX, moveY,             \* RenderingEngine camera offset (symbolic)
    objects,    \* RenderingEngine::objects, the owned meshes
    workers,    \* the std::thread objects that are running
    paintIdx,   \* index of the mesh the WM_PAINT loop is at
    invalid,    \* the window has an invalid region (a WM_PAINT is due)
    frame,      \* what has been drawn into hdcMem since the last FillRect
    ticks,      \* number of WM_TIMER messages dispatched
    calls,      \* the rotate() calls of the current tick: <<mesh index, angles>>
    redrawTick  \* the tick whose InvalidateRect was the last one issued

vars == <<sphere, lastOp, line, pixels, pc, angleX, angleY, angleZ, degree,
          moveX, moveY, objects, workers, paintIdx, invalid, frame, ticks,
          calls, redrawTick>>

sphereVars == <<sphere, lastOp>>
lineVars == <<line, pixels>>
engineVars == <<pc, angleX, angleY, angleZ, degree, moveX, moveY, objects,
                workers, paintIdx, invalid, frame, ticks, calls, redrawTick>>

(***************************************************************************)
(* Bounds of the model.                                                    *)
(***************************************************************************)
MaxSteps == 2
MaxRot == 2
MaxCoord == 5
MaxTicks == 3
MaxOrbitTicks == 123
MaxObjects == 2

StepCounts == -1..MaxSteps

\* the angles rotate() is called with, in 0.01f steps
Angles == 0..1

(***************************************************************************)
(* vec3d and triangle.                                                     *)
(***************************************************************************)
vec3d(lat, lon) == [lat |-> lat, lon |-> lon, rot |-> <<>>]

triangle(p1, p2, p3) == [p1 |-> p1, p2 |-> p2, p3 |-> p3]

\* What operator[] of std::vector may yield for an index outside the buffer:
\* some value that is no element of the buffer.
OutOfRange == {[lat |-> -1, lon |-> -1, rot |-> <<>>],
               [lat |-> -2, lon |-> -2, rot |-> <<>>]}

\* vertices[i], with the vector's 0-based index; g is what an out-of-range
\* read yields.
At(vertices, i, g) == IF i \in 0..(Len(vertices) - 1) THEN vertices[i + 1] ELSE g

(***************************************************************************)
(* Sphere::generateVertices.                                               *)
(***************************************************************************)
VerticesKeep(vertices) == vertices

\* vertices.clear()
VerticesClear(vertices) == <<>>

RECURSIVE VerticesLonLoop(_, _, _, _)
VerticesLonLoop(vertices, lat, lon, longitudeSteps) ==
    IF lon <= longitudeSteps
    THEN VerticesLonLoop(Append(vertices, vec3d(lat, lon)), lat, lon + 1, longitudeSteps)
    ELSE vertices

RECURSIVE VerticesLatLoop(_, _, _, _)
VerticesLatLoop(vertices, lat, latitudeSteps, longitudeSteps) ==
    IF lat <= latitudeSteps
    THEN VerticesLatLoop(VerticesLonLoop(vertices, lat, 0, longitudeSteps),
                         lat + 1, latitudeSteps, longitudeSteps)
    ELSE vertices

Sphere_generateVertices(s) ==
    [s EXCEPT !.vertices = VerticesLatLoop(VerticesClear(s.vertices), 0,
                                           s.latitudeSteps, s.longitudeSteps)]

(***************************************************************************)
(* Sphere::generateIndices.  The loops carry the triangle list and the set *)
(* of vertex-buffer indices read so far.                                   *)
(***************************************************************************)
TrianglesKeep(triangles) == triangles

\* triangles.clear()
TrianglesClear(triangles) == <<>>

LatBoundInclusive(lat, latitudeSteps) == lat <= latitudeSteps

\* the condition of the outer loop: lat < latitudeSteps
LatBound(lat, latitudeSteps) == lat < latitudeSteps

SecondIndexWide(first, longitudeSteps) == first + longitudeSteps + 2

\* int second = first + longitudeSteps + 1
SecondIndex(first, longitudeSteps) == first + longitudeSteps + 1

IndicesCell(acc, vertices, lat, lon, longitudeSteps, g) ==
    LET first == lat * (longitudeSteps + 1) + lon
        second == SecondIndex(first, longitudeSteps)
    IN [triangles |->
            Append(Append(acc.triangles,
                          triangle(At(vertices, first, g), At(vertices, second, g),
                                   At(vertices, first + 1, g))),
                   triangle(At(vertices, second, g), At(vertices, second + 1, g),
                            At(vertices, first + 1, g))),
        reads |-> acc.reads \cup {first, second, first + 1, second + 1}]

RECURSIVE IndicesLonLoop(_, _, _, _, _, _)
IndicesLonLoop(acc, vertices, lat, lon, longitudeSteps, g) ==
    IF lon < longitudeSteps
    THEN IndicesLonLoop(IndicesCell(acc, vertices, lat, lon, longitudeSteps, g),
                        vertices, lat, lon + 1, longitudeSteps, g)
    ELSE acc

RECURSIVE IndicesLatLoop(_, _, _, _, _, _)
IndicesLatLoop(acc, vertices, lat, latitudeSteps, longitudeSteps, g) ==
    IF LatBound(lat, latitudeSteps)
    THEN IndicesLatLoop(IndicesLonLoop(acc, vertices, lat, 0, longitudeSteps, g),
                        vertices, lat + 1, latitudeSteps, longitudeSteps, g)
    ELSE acc

Sphere_generateIndices(s, g) ==
    LET r == IndicesLatLoop([triangles |-> TrianglesClear(s.triangles), reads |-> {}],
                            s.vertices, 0, s.latitudeSteps, s.longitudeSteps, g)
    IN [s EXCEPT !.triangles = r.triangles, !.reads = r.reads]

(***************************************************************************)
(* Sphere::rotate.  With all three angles 0 every cos is 1 and every sin   *)
(* is 0, so each assignment stores the value the coordinate already had.   *)
(***************************************************************************)
RotateVertex(vertex, aX, aY, aZ) ==
    IF aX = 0 /\ aY = 0 /\ aZ = 0
    THEN vertex
    ELSE [vertex EXCEPT !.rot = Append(@, <<aX, aY, aZ>>)]

RotateVertices(s, aX, aY, aZ) ==
    [s EXCEPT !.vertices = [i \in DOMAIN s.vertices |->
                                RotateVertex(s.vertices[i], aX, aY, aZ)]]

Sphere_rotateNoRefresh(s, aX, aY, aZ, g) == RotateVertices(s, aX, aY, aZ)

Sphere_rotate(s, aX, aY, aZ, g) ==
    Sphere_generateIndices(RotateVertices(s, aX, aY, aZ), g)

\* Sphere::getTriangles
Sphere_getTriangles(s) == s.triangles

\* Sphere::Sphere: the member initialisers, then the two generate calls on
\* the default-constructed (empty) vectors.
Sphere_new(latitudeSteps, longitudeSteps, g) ==
    Sphere_generateIndices(
        Sphere_generateVertices([latitudeSteps |-> latitudeSteps,
                                 longitudeSteps |-> longitudeSteps,
                                 vertices |-> <<>>,
                                 triangles |-> <<>>,
                                 reads |-> {}]), g)

(***************************************************************************)
(* The public operations of a Sphere, called in any order by its owner.    *)
(***************************************************************************)
RotCount(s) == IF s.vertices = <<>> THEN 0 ELSE Len(s.vertices[1].rot)

GenerateVertices ==
    /\ sphere' = Sphere_generateVertices(sphere)
    /\ lastOp' = "generateVertices"
    /\ UNCHANGED <<lineVars, engineVars>>

GenerateIndices ==
    /\ \E g \in OutOfRange : sphere' = Sphere_generateIndices(sphere, g)
    /\ lastOp' = "generateIndices"
    /\ UNCHANGED <<lineVars, engineVars>>

Rotate ==
    /\ RotCount(sphere) < MaxRot
    /\ \E aX \in Angles, aY \in Angles, aZ \in Angles, g \in OutOfRange :
           sphere' = Sphere_rotate(sphere, aX, aY, aZ, g)
    /\ lastOp' = "rotate"
    /\ UNCHANGED <<lineVars, engineVars>>

(***************************************************************************)
(* RenderingEngine::DrawLine and DrawPixel.  line holds the parameters     *)
(* (x1, y1 are advanced in place as in the code; x0, y0 keep the values    *)
(* the caller passed) and the locals; line.at is the position in the loop. *)
(***************************************************************************)
Coords == -1..MaxCoord

Colors == {"blue", "red"}

abs(n) == IF n < 0 THEN 0 - n ELSE n

DrawPixelSwapped(px, x, y, color) == Append(px, [x |-> y, y |-> x, color |-> color])

\* DrawPixel: SetPixel(hdc, x, y, color)
DrawPixel(px, x, y, color) == Append(px, [x |-> x, y |-> y, color |-> color])

AtEndEither(l) == l.x1 = l.x2 \/ l.y1 = l.y2

\* x1 == x2 && y1 == y2
AtEnd(l) == l.x1 = l.x2 /\ l.y1 = l.y2

\* the declarations before the loop
DrawLine_enter(x1, y1, x2, y2, color) ==
    LET dx == abs(x2 - x1)
        dy == 0 - abs(y2 - y1)
    IN [x0 |-> x1, y0 |-> y1, x1 |-> x1, y1 |-> y1, x2 |-> x2, y2 |-> y2,
        color |-> color,
        dx |-> dx, sx |-> IF x1 < x2 THEN 1 ELSE -1,
        dy |-> dy, sy |-> IF y1 < y2 THEN 1 ELSE -1,
        err |-> dx + dy, at |-> "draw"]

\* e2 = 2 * err and the two conditional moves, in order
DrawLine_advance(l) ==
    LET e2 == 2 * l.err
        l1 == IF e2 >= l.dy
              THEN [l EXCEPT !.err = @ + l.dy, !.x1 = @ + l.sx]
              ELSE l
        l2 == IF e2 <= l.dx
              THEN [l1 EXCEPT !.err = @ + l1.dx, !.y1 = @ + l1.sy]
              ELSE l1
    IN [l2 EXCEPT !.at = "draw"]

LineDraw ==
    /\ line.at = "draw"
    /\ pixels' = DrawPixel(pixels, line.x1, line.y1, line.color)
    /\ line' = [line EXCEPT !.at = "test"]
    /\ UNCHANGED <<sphereVars, engineVars>>

LineTest ==
    /\ line.at = "test"
    /\ line' = [line EXCEPT !.at = IF AtEnd(line) THEN "done" ELSE "step"]
    /\ UNCHANGED <<pixels, sphereVars, engineVars>>

LineStep ==
    /\ line.at = "step"
    /\ line' = DrawLine_advance(line)
    /\ UNCHANGED <<pixels, sphereVars, engineVars>>

(***************************************************************************)
(* RenderingEngine: addObject, Run and HandleMessage.  The message-loop    *)
(* thread is at pc; a std::thread that has been started and has not yet    *)
(* returned is an element of workers.                                      *)
(***************************************************************************)
\* the meshes the owner of the engine adds before Run
EngineMeshes == {Sphere_new(1, 1, g) : g \in OutOfRange} \cup
                {Sphere_new(2, 1, g) : g \in OutOfRange}

DegreeStep == 3

DegreeWrap == 360

AdvanceAngleDelta(angle) == 1

\* angleX += 0.01f
AdvanceAngle(angle) == angle + 1

\* degree += 3; if (degree > 360) degree = 0;
AdvanceDegree(d) == IF d + DegreeStep > DegreeWrap THEN 0 ELSE d + DegreeStep

\* vec3d::projectTo2D with the engine's centre, scale 8.0f and offset
projectTo2D(p, mX, mY) == [p |-> p, moveX |-> mX, moveY |-> mY]

\* DrawTriangle of the three projected points: the three DrawLine calls
DrawTriangle(fr, p1, p2, p3) == fr \cup {<<p1, p2, p3>>}

JoinedNoWait(ws, kind) == TRUE

\* std::thread::join returns once the thread has returned
Joined(ws, kind) == \A i \in DOMAIN ws : ws[i].kind # kind

Remove(ws, i) == [k \in 1..(Len(ws) - 1) |-> IF k < i THEN ws[k] ELSE ws[k + 1]]

addObject ==
    /\ pc = "start"
    /\ Len(objects) < MaxObjects
    /\ \E obj \in EngineMeshes : objects' = Append(objects, obj)
    /\ UNCHANGED <<pc, angleX, angleY, angleZ, degree, moveX, moveY, workers,
                   paintIdx, invalid, frame, ticks, calls, redrawTick>>
    /\ UNCHANGED <<sphereVars, lineVars>>

\* Run: CreateWindowEx dispatches WM_CREATE (SetTimer), ShowWindow and
\* UpdateWindow make the window due for painting, then the message loop.
Run ==
    /\ pc = "start"
    /\ pc' = "idle"
    /\ invalid' = TRUE
    /\ UNCHANGED <<angleX, angleY, angleZ, degree, moveX, moveY, objects, workers,
                   paintIdx, frame, ticks, calls, redrawTick>>
    /\ UNCHANGED <<sphereVars, lineVars>>

\* WM_TIMER up to the start of rotationThread
WM_TIMER(limit) ==
    /\ pc = "idle"
    /\ ticks < limit
    /\ angleX' = AdvanceAngle(angleX)
    /\ angleY' = AdvanceAngle(angleY)
    /\ angleZ' = AdvanceAngle(angleZ)
    /\ degree' = AdvanceDegree(degree)
    /\ moveX' = <<"r*cos", degree'>>
    /\ moveY' = <<"r*sin", degree'>>
    /\ workers' = Append(workers, [kind |-> "rotation", obj |-> 1, tri |-> 0])
    /\ ticks' = ticks + 1
    /\ calls' = <<>>
    /\ pc' = "timer_join"
    /\ UNCHANGED <<objects, paintIdx, invalid, frame, redrawTick>>
    /\ UNCHANGED <<sphereVars, lineVars>>

\* rotationThread: one iteration of for (auto obj : objects)
RotationStep ==
    \E i \in DOMAIN workers :
        /\ workers[i].kind = "rotation"
        /\ workers[i].obj <= Len(objects)
        /\ \E g \in OutOfRange :
               objects' = [objects EXCEPT ![workers[i].obj] =
                               Sphere_rotate(@, angleX, angleY, angleZ, g)]
        /\ calls' = Append(calls, <<workers[i].obj, <<angleX, angleY, angleZ>>>>)
        /\ workers' = [workers EXCEPT ![i].obj = @ + 1]
        /\ UNCHANGED <<pc, angleX, angleY, angleZ, degree, moveX, moveY, paintIdx,
                       invalid, frame, ticks, redrawTick>>
        /\ UNCHANGED <<sphereVars, lineVars>>

\* rotationThread: the loop is over and the thread returns
RotationExit ==
    \E i \in DOMAIN workers :
        /\ workers[i].kind = "rotation"
        /\ workers[i].obj > Len(objects)
        /\ workers' = Remove(workers, i)
        /\ UNCHANGED <<pc, angleX, angleY, angleZ, degree, moveX, moveY, objects,
                       paintIdx, invalid, frame, ticks, calls, redrawTick>>
        /\ UNCHANGED <<sphereVars, lineVars>>

\* WM_TIMER from rotationThread.join() on: InvalidateRect, break
TimerJoin ==
    /\ pc = "timer_join"
    /\ Joined(workers, "rotation")
    /\ invalid' = TRUE
    /\ redrawTick' = ticks
    /\ pc' = "idle"
    /\ UNCHANGED <<angleX, angleY, angleZ, degree, moveX, moveY, objects, workers,
                   paintIdx, frame, ticks, calls>>
    /\ UNCHANGED <<sphereVars, lineVars>>

\* WM_PAINT up to the loop over objects: BeginPaint, FillRect
WM_PAINT ==
    /\ pc = "idle"
    /\ invalid
    /\ invalid' = FALSE
    /\ frame' = {}
    /\ paintIdx' = 1
    /\ pc' = "paint_loop"
    /\ UNCHANGED <<angleX, angleY, angleZ, degree, moveX, moveY, objects, workers,
                   ticks, calls, redrawTick>>
    /\ UNCHANGED <<sphereVars, lineVars>>

\* WM_PAINT: the loop takes the next mesh and starts its drawingThread
PaintSpawn ==
    /\ pc = "paint_loop"
    /\ paintIdx <= Len(objects)
    /\ workers' = Append(workers, [kind |-> "drawing", obj |-> paintIdx, tri |-> 1])
    /\ pc' = "paint_join"
    /\ UNCHANGED <<angleX, angleY, angleZ, degree, moveX, moveY, objects, paintIdx,
                   invalid, frame, ticks, calls, redrawTick>>
    /\ UNCHANGED <<sphereVars, lineVars>>

\* drawingThread: one iteration of for (const auto& tri : triangles); the
\* list is read through the reference getTriangles returned
DrawStep ==
    \E i \in DOMAIN workers :
        /\ workers[i].kind = "drawing"
        /\ workers[i].tri <= Len(Sphere_getTriangles(objects[workers[i].obj]))
        /\ LET tri == Sphere_getTriangles(objects[workers[i].obj])[workers[i].tri]
           IN frame' = DrawTriangle(frame, projectTo2D(tri.p1, moveX, moveY),
                                    projectTo2D(tri.p2, moveX, moveY),
                                    projectTo2D(tri.p3, moveX, moveY))
        /\ workers' = [workers EXCEPT ![i].tri = @ + 1]
        /\ UNCHANGED <<pc, angleX, angleY, angleZ, degree, moveX, moveY, objects,
                       paintIdx, invalid, ticks, calls, redrawTick>>
        /\ UNCHANGED <<sphereVars, lineVars>>

\* drawingThread: the loop is over and the thread returns
DrawExit ==
    \E i \in DOMAIN workers :
        /\ workers[i].kind = "drawing"
        /\ workers[i].tri > Len(Sphere_getTriangles(objects[workers[i].obj]))
        /\ workers' = Remove(workers, i)
        /\ UNCHANGED <<pc, angleX, angleY, angleZ, degree, moveX, moveY, objects,
                       paintIdx, invalid, frame, ticks, calls, redrawTick>>
        /\ UNCHANGED <<sphereVars, lineVars>>

\* WM_PAINT: drawingThread.join() and the loop's increment
PaintJoin ==
    /\ pc = "paint_join"
    /\ Joined(workers, "drawing")
    /\ paintIdx' = paintIdx + 1
    /\ pc' = "paint_loop"
    /\ UNCHANGED <<angleX, angleY, angleZ, degree, moveX, moveY, objects, workers,
                   invalid, frame, ticks, calls, redrawTick>>
    /\ UNCHANGED <<sphereVars, lineVars>>

\* WM_PAINT after the loop: BitBlt, EndPaint, break
PaintEnd ==
    /\ pc = "paint_loop"
    /\ paintIdx > Len(objects)
    /\ pc' = "idle"
    /\ UNCHANGED <<angleX, angleY, angleZ, degree, moveX, moveY, objects, workers,
                   paintIdx, invalid, frame, ticks, calls, redrawTick>>
    /\ UNCHANGED <<sphereVars, lineVars>>

(***************************************************************************)
(* Initial states and specifications.  Each specification exercises one    *)
(* part of the file and leaves the other parts at rest.                    *)
(***************************************************************************)
SphereAtRest == /\ \E g \in OutOfRange : sphere = Sphere_new(1, 1, g)
                /\ lastOp = "Sphere"

LineAtRest == /\ line = [DrawLine_enter(0, 0, 0, 0, "blue") EXCEPT !.at = "done"]
              /\ pixels = <<>>

\* RenderingEngine::RenderingEngine, members in declaration order
EngineNew == /\ pc = "start"
             /\ angleX = 0 /\ angleY = 0 /\ angleZ = 0
             /\ moveX = 0 /\ moveY = 0
             /\ degree = 0
             /\ objects = <<>>
             /\ workers = <<>>
             /\ paintIdx = 0
             /\ invalid = FALSE
             /\ frame = {}
             /\ ticks = 0
             /\ calls = <<>>
             /\ redrawTick = 0

EngineAtRest == EngineNew

\* a Sphere right after its constructor, for any step counts
InitSphere ==
    /\ \E latitudeSteps \in StepCounts, longitudeSteps \in StepCounts, g \in OutOfRange :
           sphere = Sphere_new(latitudeSteps, longitudeSteps, g)
    /\ lastOp = "Sphere"
    /\ LineAtRest
    /\ EngineAtRest

NextSphere == GenerateVertices \/ GenerateIndices \/ Rotate

SpecSphere == InitSphere /\ [][NextSphere]_vars

\* a DrawLine call on any two points of the grid
InitLine ==
    /\ \E x1 \in Coords, y1 \in Coords, x2 \in Coords, y2 \in Coords, color \in Colors :
           line = DrawLine_enter(x1, y1, x2, y2, color)
    /\ pixels = <<>>
    /\ SphereAtRest
    /\ EngineAtRest

NextLine == LineDraw \/ LineTest \/ LineStep

\* the loop is straight-line code on one thread: it keeps running
SpecLine == InitLine /\ [][NextLine]_vars /\ WF_vars(NextLine)

InitEngine == EngineNew /\ SphereAtRest /\ LineAtRest

NextEngine ==
    \/ addObject
    \/ Run
    \/ WM_TIMER(MaxTicks)
    \/ RotationStep
    \/ RotationExit
    \/ TimerJoin
    \/ WM_PAINT
    \/ PaintSpawn
    \/ DrawStep
    \/ DrawExit
    \/ PaintJoin
    \/ PaintEnd

SpecEngine == InitEngine /\ [][NextEngine]_vars

\* The engine run with no mesh added: the steps that iterate over objects
\* are never enabled, so they are left out of the next-state relation.
NextOrbit ==
    \/ Run
    \/ WM_TIMER(MaxOrbitTicks)
    \/ RotationExit
    \/ TimerJoin
    \/ WM_PAINT
    \/ PaintEnd

SpecOrbit == InitEngine /\ [][NextOrbit]_vars

Spec == SpecSphere

(***************************************************************************)
(* Properties of the Sphere (checked under SpecSphere).                    *)
(***************************************************************************)
NonDegenerate(s) == s.latitudeSteps >= 1 /\ s.longitudeSteps >= 1

\* C1: with latitudeSteps >= 1 and longitudeSteps >= 1 the vertex buffer
\* holds exactly (latitudeSteps+1)*(longitudeSteps+1) vertices, the one of
\* pair (lat, lon) at position lat*(longitudeSteps+1)+lon, and a further
\* generateVertices() leaves exactly the freshly generated vertices.
C1_VertexBuffer ==
    NonDegenerate(sphere) =>
        /\ Len(sphere.vertices) = (sphere.latitudeSteps + 1) * (sphere.longitudeSteps + 1)
        /\ \A lat \in 0..sphere.latitudeSteps, lon \in 0..sphere.longitudeSteps :
               LET v == sphere.vertices[lat * (sphere.longitudeSteps + 1) + lon + 1]
               IN /\ v.lat = lat
                  /\ v.lon = lon
                  /\ (lastOp = "generateVertices" => v.rot = <<>>)

\* generateVertices() has just replaced a buffer that had been rotated (the
\* triangle list still holds the rotated copies).
C1_Witness ==
    /\ NonDegenerate(sphere)
    /\ lastOp = "generateVertices"
    /\ sphere.triangles # <<>>
    /\ sphere.triangles[1].p1.rot # <<>>
    /\ Len(sphere.vertices) = (sphere.latitudeSteps + 1) * (sphere.longitudeSteps + 1)

\* C2: with latitudeSteps >= 1 and longitudeSteps >= 1, getTriangles() has
\* exactly 2*latitudeSteps*longitudeSteps entries after construction and
\* after any sequence of calls.
C2_TriangleCount ==
    NonDegenerate(sphere) =>
        Len(Sphere_getTriangles(sphere)) = 2 * sphere.latitudeSteps * sphere.longitudeSteps

\* a 2 x 2 sphere after its second non-identity rotation
C2_Witness ==
    /\ sphere.latitudeSteps = 2
    /\ sphere.longitudeSteps = 2
    /\ lastOp = "rotate"
    /\ RotCount(sphere) = 2
    /\ Len(Sphere_getTriangles(sphere)) = 8

\* The two triangles of every cell hold the current values of the vertices
\* the topology names.
TrianglesCurrent(s) ==
    \A lat \in 0..(s.latitudeSteps - 1), lon \in 0..(s.longitudeSteps - 1) :
        LET first == lat * (s.longitudeSteps + 1) + lon
            second == first + s.longitudeSteps + 1
            k == 2 * (lat * s.longitudeSteps + lon)
            v == s.vertices
            t == Sphere_getTriangles(s)
        IN /\ second + 2 <= Len(v)
           /\ k + 2 <= Len(t)
           /\ t[k + 1] = [p1 |-> v[first + 1], p2 |-> v[second + 1], p3 |-> v[first + 2]]
           /\ t[k + 2] = [p1 |-> v[second + 1], p2 |-> v[second + 2], p3 |-> v[first + 2]]

\* C3 as claimed: in every state between public operations, generateVertices()
\* included, the triangle list holds the current vertex values.
C3_Claim == TrianglesCurrent(sphere)

\* C3, amended: the triangle list holds the current vertex values after
\* construction and after every generateIndices() or rotate() call, that
\* is, whenever the last operation was not generateVertices().
C3_TrianglesCurrent == lastOp # "generateVertices" => TrianglesCurrent(sphere)

\* a non-identity rotate() has returned and the triangles hold rotated values
C3_Witness ==
    /\ NonDegenerate(sphere)
    /\ lastOp = "rotate"
    /\ RotCount(sphere) >= 1
    /\ sphere.triangles[1].p1 = sphere.vertices[1]
    /\ sphere.triangles[1].p1.rot # <<>>

\* C9: with latitudeSteps <= 0 or longitudeSteps <= 0 the triangle list is
\* empty after construction and after every later call, and generateIndices
\* read no element of the vertex buffer.
C9_Degenerate ==
    (sphere.latitudeSteps <= 0 \/ sphere.longitudeSteps <= 0) =>
        /\ Sphere_getTriangles(sphere) = <<>>
        /\ sphere.reads = {}

\* a degenerate sphere that has vertices, after a non-identity rotate()
C9_Witness ==
    /\ sphere.latitudeSteps = 0
    /\ sphere.longitudeSteps >= 1
    /\ lastOp = "rotate"
    /\ RotCount(sphere) >= 1
    /\ Sphere_getTriangles(sphere) = <<>>

\* C10: every index generateIndices reads lies in 0..len(vertices)-1, and
\* with latitudeSteps >= 1 and longitudeSteps >= 1 the largest index read
\* is exactly len(vertices)-1.
C10_IndicesInBounds ==
    /\ \A i \in sphere.reads : 0 <= i /\ i <= Len(sphere.vertices) - 1
    /\ NonDegenerate(sphere) => (Len(sphere.vertices) - 1) \in sphere.reads

\* generateIndices has run inside a rotate() and read the last vertex
C10_Witness ==
    /\ NonDegenerate(sphere)
    /\ lastOp = "rotate"
    /\ RotCount(sphere) >= 1
    /\ (Len(sphere.vertices) - 1) \in sphere.reads
    /\ 0 \in sphere.reads

(***************************************************************************)
(* Properties of DrawLine (checked under SpecLine).                        *)
(***************************************************************************)
Min(a, b) == IF a < b THEN a ELSE b

Max(a, b) == IF a < b THEN b ELSE a

\* C4: on a horizontal segment every pixel set has the segment's y and the
\* given colour, no pixel is set twice, and when the call returns exactly
\* the |x2-x1|+1 pixels with x between x1 and x2 have been set.
C4_Horizontal ==
    line.y0 = line.y2 =>
        /\ \A i \in DOMAIN pixels :
               /\ pixels[i].y = line.y0
               /\ pixels[i].color = line.color
               /\ pixels[i].x \in Min(line.x0, line.x2)..Max(line.x0, line.x2)
        /\ \A i \in DOMAIN pixels, j \in DOMAIN pixels :
               pixels[i].x = pixels[j].x => i = j
        /\ line.at = "done" =>
               /\ Len(pixels) = abs(line.x2 - line.x0) + 1
               /\ {pixels[i].x : i \in DOMAIN pixels} =
                      Min(line.x0, line.x2)..Max(line.x0, line.x2)

\* DrawLine from (0,0) to (5,0) has returned with 6 pixels set
C4_Witness ==
    /\ line.at = "done"
    /\ line.x0 = 0 /\ line.y0 = 0 /\ line.x2 = 5 /\ line.y2 = 0
    /\ Len(pixels) = 6

WalkInvariant ==
    /\ pixels # <<>> => (pixels[1].x = line.x0 /\ pixels[1].y = line.y0)
    /\ line.at = "done" =>
           (pixels[Len(pixels)].x = line.x2 /\ pixels[Len(pixels)].y = line.y2)
    /\ line.x1 \in Min(line.x0, line.x2)..Max(line.x0, line.x2)
    /\ line.y1 \in Min(line.y0, line.y2)..Max(line.y0, line.y2)

WalkStep ==
    line.at = "step" =>
        /\ abs(line'.x1 - line.x1) <= 1
        /\ abs(line'.y1 - line.y1) <= 1
        /\ <<line'.x1, line'.y1>> # <<line.x1, line.y1>>
        /\ abs(line.x2 - line'.x1) <= abs(line.x2 - line.x1)
        /\ abs(line.y2 - line'.y1) <= abs(line.y2 - line.y1)

\* C5: for all endpoints of the grid the loop terminates, the first pixel
\* set is (x1,y1), the last is (x2,y2), every step moves the current point
\* to one of its 8 neighbours and no further from the endpoint on either
\* axis, and the current point stays in the bounding box of the endpoints.
C5_Walk == /\ <>(line.at = "done")
           /\ []WalkInvariant
           /\ [][WalkStep]_vars

\* a diagonal-ish call across the grid has returned
C5_Witness ==
    /\ line.at = "done"
    /\ line.x0 = 5 /\ line.y0 = 0 /\ line.x2 = 0 /\ line.y2 = 3
    /\ Len(pixels) = 6

(***************************************************************************)
(* Properties of the engine (checked under SpecOrbit and SpecEngine).      *)
(***************************************************************************)
\* C6 as claimed: every tick takes the orbit angle to (previous + 3) mod 360,
\* a value of [0, 360).
C6_Claim ==
    [][ticks' = ticks + 1 =>
           /\ degree' = (degree + DegreeStep) % DegreeWrap
           /\ degree' \in 0..(DegreeWrap - 1)]_vars

\* the absolute angles of ticks 1..n
Hist(n) == [k \in 1..n |-> <<k, k, k>>]

RECURSIVE SumX(_)
SumX(rot) == IF rot = <<>> THEN 0 ELSE rot[1][1] + SumX(Tail(rot))

\* the ticks mesh i has been rotated in
Rotated(i) == IF i <= Len(calls) THEN ticks ELSE ticks - 1

\* C7: in tick n the angles are n steps each before any rotate(); rotate()
\* is called once per mesh, in list order, with these angles, on the buffer
\* the previous tick left, so that a mesh rotated in ticks 1..n carries the
\* steps 1, 2, ..., n (n(n+1)/2 in sum); the redraw request of tick n is
\* issued only when every mesh has been rotated in tick n.
C7_Tick ==
    /\ angleX = ticks /\ angleY = ticks /\ angleZ = ticks
    /\ Len(calls) <= Len(objects)
    /\ \A k \in DOMAIN calls : calls[k] = <<k, <<ticks, ticks, ticks>>>>
    /\ (ticks >= 1 /\ pc # "timer_join") => Len(calls) = Len(objects)
    /\ \A i \in DOMAIN objects :
           /\ \A j \in DOMAIN objects[i].vertices :
                  /\ objects[i].vertices[j].rot = Hist(Rotated(i))
                  /\ 2 * SumX(objects[i].vertices[j].rot) = Rotated(i) * (Rotated(i) + 1)
           /\ \A j \in DOMAIN objects[i].triangles :
                  /\ objects[i].triangles[j].p1.rot = Hist(Rotated(i))
                  /\ objects[i].triangles[j].p2.rot = Hist(Rotated(i))
                  /\ objects[i].triangles[j].p3.rot = Hist(Rotated(i))
    /\ redrawTick <= ticks
    /\ (redrawTick = ticks /\ ticks >= 1) => Len(calls) = Len(objects)

\* the third tick has completed on two meshes and requested its redraw
C7_Witness ==
    /\ ticks = 3
    /\ pc = "idle"
    /\ redrawTick = 3
    /\ Len(objects) = 2
    /\ calls = <<<<1, <<3, 3, 3>>>>, <<2, <<3, 3, 3>>>>>>
    /\ objects[2].vertices[1].rot = <<<<1, 1, 1>>, <<2, 2, 2>>, <<3, 3, 3>>>>

\* C8: at most one worker thread is alive, and while one is alive the
\* handler that started it is blocked in its join (so the rotation never
\* overlaps a draw, no two meshes are drawn at once, and no handler starts
\* while a worker runs).
C8_OneWorker ==
    /\ Len(workers) <= 1
    /\ \A i \in DOMAIN workers :
           /\ workers[i].kind = "rotation" => pc = "timer_join"
           /\ workers[i].kind = "drawing" =>
                  (pc = "paint_join" /\ workers[i].obj = paintIdx)

\* the drawing thread of the second mesh is at its second triangle, in a
\* paint that follows a tick
C8_Witness ==
    /\ ticks >= 1
    /\ pc = "paint_join"
    /\ Len(workers) = 1
    /\ workers[1] = [kind |-> "drawing", obj |-> 2, tri |-> 2]

=============================================================================
